---- MODULE Spec2Model ----
(***************************************************************************)
(* Model of caps_indicator.py: the three lock-key readers, the            *)
(* CapsLockWindow visibility state machine (update_status / hide_window)   *)
(* driven by two QTimers, and main.                                        *)
(*                                                                         *)
(* Time is in milliseconds.  A QTimer is the set of its timeouts pending   *)
(* in the event dispatcher, each given by the time left to it: {} is a     *)
(* stopped timer.  A timeout with 0 ms left is due, and time advances only *)
(* to the next expiry (Advance), so a due timeout is dispatched before     *)
(* time passes.                                                            *)
(* An optional boolean (None / True / False) is a sequence of length <= 1. *)
(***************************************************************************)
EXTENDS Integers, Sequences, FiniteSets, TLC

VARIABLES
    IS_WINDOWS,                 \* platform.system() == "Windows"
    via,                        \* how the window was constructed: by "main" or by a bare "CapsLockWindow" call
    args,                       \* the hide-time and polling-rate arguments given, <<>> if omitted
    hide_time,                  \* self.hide_time
    polling_rate,               \* interval of self.timer
    pc,                         \* position in main: "constructed", "exec", "crashed"
    visible,                    \* QWidget visibility of the window
    is_shown,                   \* self.is_shown
    current_caps_state,         \* self.current_caps_state
    current_numlock_state,      \* self.current_numlock_state
    current_scrolllock_state,   \* self.current_scrolllock_state
    labelText,                  \* self.label.text()
    labelStyle,                 \* self.label.styleSheet()
    timer,                      \* self.timer (poll tick)
    hide_timer,                 \* self.hide_timer (hide countdown)
    keys,                       \* OS toggle state of each virtual key
    lastOp,                     \* history: the operation that ran last
    sample,                     \* history: the triple read by the last update_status
    calls,                      \* history: GUI/timer calls made by the last operation
    sinceChange,                \* history: ms since the last displayed change (saturating)
    hidesSinceChange,           \* history: hide_window runs since the last displayed change
    superseded,                 \* history: the last displayed change re-armed a pending countdown
    outcomes,                   \* history: outcome of each GetKeyState call of the last update_status
    ticks,                      \* history: number of update_status runs (saturating)
    unshown                     \* history: a key was toggled since the last displayed change

vars == <<IS_WINDOWS, via, args, hide_time, polling_rate, pc, visible, is_shown,
          current_caps_state, current_numlock_state, current_scrolllock_state,
          labelText, labelStyle, timer, hide_timer, keys,
          lastOp, sample, calls, sinceChange, hidesSinceChange, superseded,
          outcomes, ticks, unshown>>

----------------------------------------------------------------------------
(* Program constants *)

CAPS_LOCK_VK == 20
NUMLOCK_VK == 144
SCROLLLOCK_VK == 145
DEFAULT_POLLING_INTERVAL == 250
DEFAULT_HIDE_TIME == 1500
BORDER_RADIUS == 8
LABEL_PADDING == 12

(* Bounds of the model *)

\* saturation point of the hidesSinceChange history counter
MaxHides == 2

\* saturation point of the ticks history counter
MaxTicks == 2

\* command lines tried: <<>> is an omitted flag, <<n>> the flag with value n
HideTimeArgs == {<<>>, <<100>>, <<250>>, <<600>>}
PollingRateArgs == {<<>>, <<400>>}

VKs == {CAPS_LOCK_VK, NUMLOCK_VK, SCROLLLOCK_VK}

\* outcome of one call of ctypes.windll.user32.GetKeyState
Outcomes == {"ok", "AttributeError", "OSError"}

None == <<>>
Some(b) == <<b>>

Min(a, b) == IF a <= b THEN a ELSE b

----------------------------------------------------------------------------
(* Key-state readers *)

\* SHORT returned by GetKeyState: low-order bit = toggled, high-order bit = down
GetKeyState(vk, down) ==
    (IF keys[vk] THEN 1 ELSE 0) + (IF down THEN 32768 ELSE 0)

\* mutant: the except clauses name AttributeError alone
Caught_AttributeErrorOnly == {"AttributeError"}

\* the exceptions the readers' except clauses catch
Caught == {"AttributeError", "OSError"}

Return(b) == [raised |-> FALSE, value |-> b]
Raise == [raised |-> TRUE, value |-> FALSE]

\* mutant: the key-down bit is tested in place of the toggle bit
get_caps_lock_state_DownBit(outcome, down) ==
    IF ~IS_WINDOWS THEN Return(FALSE)
    ELSE IF outcome = "ok" THEN Return(((GetKeyState(CAPS_LOCK_VK, down) \div 32768) % 2) # 0)
    ELSE IF outcome \in Caught THEN Return(FALSE)
    ELSE Raise

get_caps_lock_state(outcome, down) ==
    IF ~IS_WINDOWS THEN Return(FALSE)
    ELSE IF outcome = "ok" THEN Return((GetKeyState(CAPS_LOCK_VK, down) % 2) # 0)
    ELSE IF outcome \in Caught THEN Return(FALSE)
    ELSE Raise

get_numlock_state(outcome, down) ==
    IF ~IS_WINDOWS THEN Return(FALSE)
    ELSE IF outcome = "ok" THEN Return((GetKeyState(NUMLOCK_VK, down) % 2) # 0)
    ELSE IF outcome \in Caught THEN Return(FALSE)
    ELSE Raise

get_scrolllock_state(outcome, down) ==
    IF ~IS_WINDOWS THEN Return(FALSE)
    ELSE IF outcome = "ok" THEN Return((GetKeyState(SCROLLLOCK_VK, down) % 2) # 0)
    ELSE IF outcome \in Caught THEN Return(FALSE)
    ELSE Raise

----------------------------------------------------------------------------
(* Label text and style *)

GreenTheme ==
    [color |-> "#FFFFFF", background |-> "#27AE60", border |-> "1px solid #2ECC71",
     radius |-> BORDER_RADIUS, padding |-> LABEL_PADDING, weight |-> 500]

GrayTheme ==
    [color |-> "#FFFFFF", background |-> "#2C3E50", border |-> "1px solid #34495E",
     radius |-> BORDER_RADIUS, padding |-> LABEL_PADDING, weight |-> 500]

_get_label_style(has_active_keys) ==
    IF has_active_keys THEN GreenTheme ELSE GrayTheme

DisplayText(active) == IF active THEN "ON" ELSE "OFF"

\* mutant: the NUM and SCROLL fields show each other's key
StatusText_Swapped(caps, num, scroll) ==
    "CAPS: " \o DisplayText(caps) \o " | NUM: " \o DisplayText(scroll)
        \o " | SCROLL: " \o DisplayText(num)

StatusText(caps, num, scroll) ==
    "CAPS: " \o DisplayText(caps) \o " | NUM: " \o DisplayText(num)
        \o " | SCROLL: " \o DisplayText(scroll)

InitialLabel ==
    IF IS_WINDOWS THEN "CAPS: OFF | NUM: OFF | SCROLL: OFF" ELSE "Windows-only feature"

----------------------------------------------------------------------------
(* QTimer *)

\* mutant: a running timer is left to run on
QTimerStart_NoRestart(t, msec) == IF t # {} THEN t ELSE {msec}

\* mutant: every start adds a timeout of its own (as QTimer.singleShot would)
QTimerStart_Add(t, msec) == t \cup {msec}

\* QTimer.start(msec) on timer t: stops t if it is running, then starts it
QTimerStart(t, msec) == {msec}

\* mutant: the timer is not stopped
QTimerStop_Noop(t) == t

\* QTimer.stop() on timer t
QTimerStop(t) == {}

\* a timeout of t (not single-shot) has been dispatched: it is pending again
\* after a full interval
Repeat(t, interval) == (t \ {0}) \cup {interval}

Active(t) == t # {}

Due(t) == 0 \in t

----------------------------------------------------------------------------
(* main and CapsLockWindow.__init__ *)

\* main: the value argparse gives for each flag
ParseHideTime(arg) == IF arg = <<>> THEN DEFAULT_HIDE_TIME ELSE arg[1]
ParsePollingRate(arg) == IF arg = <<>> THEN DEFAULT_POLLING_INTERVAL ELSE arg[1]

\* CapsLockWindow.__init__: the value of each parameter (line 94)
CtorHideTime(arg) == IF arg = <<>> THEN 1000 ELSE arg[1]
CtorPollingRate(arg) == IF arg = <<>> THEN DEFAULT_POLLING_INTERVAL ELSE arg[1]

\* the ways the window is constructed: main passes both parsed values
\* (line 236); a bare CapsLockWindow() call leaves both parameters out
Constructions ==
    {<<"main", <<h, p>>>> : h \in HideTimeArgs, p \in PollingRateArgs}
        \cup {<<"CapsLockWindow", <<None, None>>>>}

\* the state after CapsLockWindow.__init__; a window constructed by main
\* waits for main's show() and exec_(), a window constructed otherwise is
\* in a running event loop
Init ==
    /\ IS_WINDOWS \in BOOLEAN
    /\ keys \in [VKs -> BOOLEAN]
    /\ \E c \in Constructions : via = c[1] /\ args = c[2]
    /\ hide_time = CtorHideTime(IF via = "main" THEN Some(ParseHideTime(args[1]))
                                                ELSE args[1])
    /\ polling_rate = CtorPollingRate(IF via = "main" THEN Some(ParsePollingRate(args[2]))
                                                      ELSE args[2])
    /\ pc = (IF via = "main" THEN "constructed" ELSE "exec")
    /\ visible = FALSE
    /\ is_shown = FALSE
    /\ current_caps_state = None
    /\ current_numlock_state = None
    /\ current_scrolllock_state = None
    /\ labelText = InitialLabel
    /\ labelStyle = _get_label_style(FALSE)
    /\ timer = QTimerStart({}, polling_rate)
    /\ hide_timer = {}
    /\ lastOp = "__init__"
    /\ sample = None
    /\ calls = {}
    /\ sinceChange = 0
    /\ hidesSinceChange = 0
    /\ superseded = FALSE
    /\ outcomes = None
    /\ ticks = 0
    /\ unshown = FALSE

\* main: window.show() and entry into app.exec_()
MainShow ==
    /\ pc = "constructed"
    /\ pc' = "exec"
    /\ visible' = TRUE
    /\ lastOp' = "main"
    /\ sample' = None
    /\ outcomes' = None
    /\ calls' = {"show"}
    /\ UNCHANGED <<IS_WINDOWS, via, args, hide_time, polling_rate, is_shown,
                   current_caps_state, current_numlock_state, current_scrolllock_state,
                   labelText, labelStyle, timer, hide_timer, keys,
                   sinceChange, hidesSinceChange, superseded, ticks, unshown>>

----------------------------------------------------------------------------
(* CapsLockWindow.update_status: the poll tick *)

\* mutant: the comparison dropped, every tick displays
StateChanged_Always(caps, num, scroll) == TRUE

\* mutant: an unset stored state compares like False
StateChanged_NoneIsFalse(caps, num, scroll) ==
    \/ caps # (current_caps_state = Some(TRUE))
    \/ num # (current_numlock_state = Some(TRUE))
    \/ scroll # (current_scrolllock_state = Some(TRUE))

\* the comparison of lines 180-184
StateChanged(caps, num, scroll) ==
    \/ Some(caps) # current_caps_state
    \/ Some(num) # current_numlock_state
    \/ Some(scroll) # current_scrolllock_state

\* lines 169-173: the non-Windows branch
UpdateUnsupported ==
    /\ sample' = None
    /\ IF ~is_shown
       THEN /\ visible' = TRUE
            /\ is_shown' = TRUE
            /\ calls' = {"show"}
       ELSE /\ UNCHANGED <<visible, is_shown>>
            /\ calls' = {}
    /\ UNCHANGED <<pc, current_caps_state, current_numlock_state,
                   current_scrolllock_state, labelText, labelStyle, hide_timer,
                   sinceChange, hidesSinceChange, superseded, unshown>>

\* mutant: Scroll Lock is left out of the test
AnyKeysActive_NoScroll(caps, num, scroll) == caps \/ num

\* line 199
AnyKeysActive(caps, num, scroll) == caps \/ num \/ scroll

\* lines 185-206: the body of the if, for the values read
DisplayChange(caps, num, scroll) ==
    /\ current_caps_state' = Some(caps)
    /\ current_numlock_state' = Some(num)
    /\ current_scrolllock_state' = Some(scroll)
    /\ labelText' = StatusText(caps, num, scroll)
    /\ labelStyle' = _get_label_style(AnyKeysActive(caps, num, scroll))
    /\ visible' = TRUE
    /\ is_shown' = TRUE
    /\ hide_timer' = QTimerStart(hide_timer, hide_time)
    /\ calls' = {"setText", "setStyleSheet", "show", "hide_timer.start"}
    /\ sinceChange' = 0
    /\ hidesSinceChange' = 0
    /\ superseded' = Active(hide_timer)
    /\ unshown' = FALSE
    /\ UNCHANGED pc

\* lines 175-206: the Windows branch, for one outcome of each GetKeyState call
UpdateSupported(c, n, s) ==
    IF c.raised \/ n.raised \/ s.raised
    THEN \* an exception leaves the slot: PyQt5 aborts the process
         /\ pc' = "crashed"
         /\ sample' = None
         /\ calls' = {}
         /\ UNCHANGED <<visible, is_shown, current_caps_state, current_numlock_state,
                        current_scrolllock_state, labelText, labelStyle, hide_timer,
                        sinceChange, hidesSinceChange, superseded, unshown>>
    ELSE /\ sample' = <<c.value, n.value, s.value>>
         /\ IF StateChanged(c.value, n.value, s.value)
            THEN DisplayChange(c.value, n.value, s.value)
            ELSE /\ calls' = {}
                 /\ UNCHANGED <<pc, visible, is_shown, current_caps_state,
                                current_numlock_state, current_scrolllock_state,
                                labelText, labelStyle, hide_timer,
                                sinceChange, hidesSinceChange, superseded, unshown>>

update_status ==
    /\ pc = "exec"
    /\ Due(timer)
    /\ timer' = Repeat(timer, polling_rate)
    /\ lastOp' = "update_status"
    /\ ticks' = Min(ticks + 1, MaxTicks)
    /\ IF ~IS_WINDOWS
       THEN /\ UpdateUnsupported
            /\ outcomes' = None
       ELSE \E oc, on, os \in Outcomes, dc, dn, ds \in BOOLEAN :
                /\ UpdateSupported(get_caps_lock_state(oc, dc),
                                   get_numlock_state(on, dn),
                                   get_scrolllock_state(os, ds))
                /\ outcomes' = <<oc, on, os>>
    /\ UNCHANGED <<IS_WINDOWS, via, args, hide_time, polling_rate, keys>>

----------------------------------------------------------------------------
(* CapsLockWindow.hide_window: expiry of the hide countdown *)

hide_window ==
    /\ pc = "exec"
    /\ Due(hide_timer)
    /\ visible' = FALSE
    /\ is_shown' = FALSE
    /\ hide_timer' = QTimerStop(Repeat(hide_timer, hide_time))
    /\ lastOp' = "hide_window"
    /\ sample' = None
    /\ outcomes' = None
    /\ calls' = {"hide", "hide_timer.stop"}
    /\ hidesSinceChange' = Min(hidesSinceChange + 1, MaxHides)
    /\ UNCHANGED <<IS_WINDOWS, via, args, hide_time, polling_rate, pc,
                   current_caps_state, current_numlock_state, current_scrolllock_state,
                   labelText, labelStyle, timer, keys, sinceChange, superseded, ticks,
                   unshown>>

----------------------------------------------------------------------------
(* Environment: passage of time and the user's key presses *)

\* time to the next expiry of a running timer
NextExpiry ==
    CHOOSE r \in timer \cup hide_timer : \A q \in timer \cup hide_timer : r <= q

Elapse(t, d) == {r - d : r \in t}

Advance ==
    /\ pc = "exec"
    /\ NextExpiry > 0
    /\ timer' = Elapse(timer, NextExpiry)
    /\ hide_timer' = Elapse(hide_timer, NextExpiry)
    /\ sinceChange' = Min(sinceChange + NextExpiry, hide_time)
    /\ lastOp' = "advance"
    /\ sample' = None
    /\ outcomes' = None
    /\ calls' = {}
    /\ UNCHANGED <<IS_WINDOWS, via, args, hide_time, polling_rate, pc, visible, is_shown,
                   current_caps_state, current_numlock_state, current_scrolllock_state,
                   labelText, labelStyle, keys, hidesSinceChange, superseded, ticks,
                   unshown>>

Toggle ==
    /\ pc = "exec"
    /\ \E vk \in VKs : keys' = [keys EXCEPT ![vk] = ~@]
    /\ lastOp' = "toggle"
    /\ unshown' = TRUE
    /\ sample' = None
    /\ outcomes' = None
    /\ calls' = {}
    /\ UNCHANGED <<IS_WINDOWS, via, args, hide_time, polling_rate, pc, visible, is_shown,
                   current_caps_state, current_numlock_state, current_scrolllock_state,
                   labelText, labelStyle, timer, hide_timer,
                   sinceChange, hidesSinceChange, superseded, ticks>>

----------------------------------------------------------------------------

Next ==
    \/ MainShow
    \/ update_status
    \/ hide_window
    \/ Advance
    \/ Toggle

Spec == Init /\ [][Next]_vars

\* the event loop dispatches a due timer, and time passes
FairSpec ==
    /\ Spec
    /\ WF_vars(MainShow)
    /\ WF_vars(update_status)
    /\ WF_vars(hide_window)
    /\ WF_vars(Advance)

----------------------------------------------------------------------------
(* Properties *)

\* the stored last-displayed state
Displayed == <<current_caps_state, current_numlock_state, current_scrolllock_state>>

\* a sampled triple of booleans as a last-displayed state
Wrap(t) == <<Some(t[1]), Some(t[2]), Some(t[3])>>

\* the text the label is to show for each sampled triple
ExpectedText(t) ==
    CASE t = <<FALSE, FALSE, FALSE>> -> "CAPS: OFF | NUM: OFF | SCROLL: OFF"
      [] t = <<FALSE, FALSE, TRUE>>  -> "CAPS: OFF | NUM: OFF | SCROLL: ON"
      [] t = <<FALSE, TRUE, FALSE>>  -> "CAPS: OFF | NUM: ON | SCROLL: OFF"
      [] t = <<FALSE, TRUE, TRUE>>   -> "CAPS: OFF | NUM: ON | SCROLL: ON"
      [] t = <<TRUE, FALSE, FALSE>>  -> "CAPS: ON | NUM: OFF | SCROLL: OFF"
      [] t = <<TRUE, FALSE, TRUE>>   -> "CAPS: ON | NUM: OFF | SCROLL: ON"
      [] t = <<TRUE, TRUE, FALSE>>   -> "CAPS: ON | NUM: ON | SCROLL: OFF"
      [] t = <<TRUE, TRUE, TRUE>>    -> "CAPS: ON | NUM: ON | SCROLL: ON"
      [] OTHER -> "?"

\* the step is a poll tick on the supported platform that sampled a triple
SampledTick == IS_WINDOWS /\ lastOp' = "update_status" /\ sample' # None

\* C1: on the supported platform a poll tick whose sample equals the
\* last-displayed state changes nothing: visibility, label text, label style,
\* the stored state and the hide countdown (pending or not, and the time left
\* to it) stay as they were, and the tick makes no show, text, style or timer
\* call.
C1_SameSampleChangesNothing ==
    [][(SampledTick /\ Wrap(sample') = Displayed)
        => /\ visible' = visible
           /\ is_shown' = is_shown
           /\ labelText' = labelText
           /\ labelStyle' = labelStyle
           /\ Displayed' = Displayed
           /\ hide_timer' = hide_timer
           /\ calls' = {}]_vars

\* C1 witness: the fifth consecutive tick that samples (true, false, false)
\* again: 1250 ms of the 1500 ms countdown have passed and it is still pending
C1_Witness ==
    /\ IS_WINDOWS
    /\ lastOp = "update_status"
    /\ sample = <<TRUE, FALSE, FALSE>>
    /\ calls = {}
    /\ visible
    /\ hide_time = 1500
    /\ polling_rate = 250
    /\ hide_timer = {250}

\* C2: on the supported platform a poll tick whose sample differs from the
\* last-displayed state (unset included) leaves the window visible, the stored
\* state equal to the sample, and the label text the exact
\* "CAPS: .. | NUM: .. | SCROLL: .." rendering of the sample.
C2_ChangeIsDisplayed ==
    [][(SampledTick /\ Wrap(sample') # Displayed)
        => /\ visible'
           /\ Displayed' = Wrap(sample')
           /\ labelText' = ExpectedText(sample')]_vars

\* C2 witness: a tick after the first one displayed (true, true, false)
C2_Witness ==
    /\ IS_WINDOWS
    /\ lastOp = "update_status"
    /\ ticks = 2
    /\ "show" \in calls
    /\ sample = <<TRUE, TRUE, FALSE>>
    /\ labelText = "CAPS: ON | NUM: ON | SCROLL: OFF"
    /\ visible

\* C3: a change sampled while a countdown is pending restarts the countdown
\* from the full hide-time; the window is hidden only when a full hide-time
\* has passed since the most recent displayed change, and at most one hide
\* fires after that change.
C3_RearmSupersedes ==
    [][/\ (SampledTick /\ Wrap(sample') # Displayed /\ Active(hide_timer))
            => hide_timer' = {hide_time}
       /\ (visible /\ ~visible') => sinceChange = hide_time
       /\ hidesSinceChange' <= 1]_vars

\* C3 witness: the hide that ends a burst, a full hide-time after the last
\* change, which had re-armed a pending countdown
C3_Witness ==
    /\ lastOp = "hide_window"
    /\ superseded
    /\ ~visible
    /\ hidesSinceChange = 1
    /\ sinceChange = hide_time

\* C4: once a change is displayed and no further change is sampled, the
\* countdown expires and hide_window runs, exactly once: it leaves the window
\* hidden and the countdown stopped, and no second hide follows the same
\* change.
C4_HidesExactlyOnce ==
    /\ [](hidesSinceChange <= 1)
    /\ [](lastOp = "hide_window" => ~visible /\ ~Active(hide_timer))
    /\ ((IS_WINDOWS /\ Active(hide_timer) /\ "hide_timer.start" \notin calls)
            ~> (lastOp = "hide_window" \/ "hide_timer.start" \in calls))

\* C4 witness: a tick with an unchanged sample after the one hide: the
\* window is hidden and no countdown is pending
C4_Witness ==
    /\ IS_WINDOWS
    /\ lastOp = "update_status"
    /\ calls = {}
    /\ ~visible
    /\ hidesSinceChange = 1
    /\ ~Active(hide_timer)

\* C5: at most one hide countdown is pending in every reachable state.
C5_OnePendingHide == Cardinality(hide_timer) <= 1

\* C5 witness: a change has just re-armed a countdown that was pending
C5_Witness ==
    /\ lastOp = "update_status"
    /\ "hide_timer.start" \in calls
    /\ superseded
    /\ hide_timer = {hide_time}

\* C6: before the first poll tick the window is hidden and the
\* last-displayed state is unset for all three keys.
C6_StartsHidden ==
    ticks = 0 => (~visible /\ Displayed = <<None, None, None>>)

\* C7: on an unsupported platform the message becomes visible at the first
\* poll tick and not before, and no hide countdown is ever armed.
C7_ShownAtFirstTick ==
    ~IS_WINDOWS => ((visible <=> ticks > 0) /\ ~Active(hide_timer))

\* C8: after a state-changing poll tick the label style is the green
\* ("active") theme iff at least one boolean of the displayed sample is true,
\* and the gray ("inactive") theme otherwise.
C8_StyleFollowsSample ==
    (IS_WINDOWS /\ lastOp = "update_status" /\ calls # {})
        => IF sample[1] \/ sample[2] \/ sample[3]
           THEN labelStyle.background = "#27AE60" /\ labelStyle.border = "1px solid #2ECC71"
           ELSE labelStyle.background = "#2C3E50" /\ labelStyle.border = "1px solid #34495E"

\* C8 witness: Scroll Lock alone is on and the label is green
C8_Witness ==
    /\ IS_WINDOWS
    /\ lastOp = "update_status"
    /\ calls # {}
    /\ sample = <<FALSE, FALSE, TRUE>>
    /\ labelStyle.background = "#27AE60"

\* C9: on the supported platform the first poll tick displays whatever it
\* samples: the window is visible, the label shows the sample in text and
\* style, and the countdown is armed for the full hide-time.
C9_FirstTickDisplays ==
    (IS_WINDOWS /\ ticks = 1 /\ lastOp = "update_status")
        => /\ sample # None
           /\ visible
           /\ Displayed = Wrap(sample)
           /\ labelText = ExpectedText(sample)
           /\ labelStyle.background =
                  (IF TRUE \in {sample[i] : i \in 1..3} THEN "#27AE60" ELSE "#2C3E50")
           /\ hide_timer = {hide_time}

\* C9 witness: the first tick sampled all three keys off
C9_Witness ==
    /\ IS_WINDOWS
    /\ ticks = 1
    /\ lastOp = "update_status"
    /\ sample = <<FALSE, FALSE, FALSE>>
    /\ visible
    /\ labelText = "CAPS: OFF | NUM: OFF | SCROLL: OFF"
    /\ hide_timer = {hide_time}

\* the virtual key read by the i-th reader
VKOf == <<CAPS_LOCK_VK, NUMLOCK_VK, SCROLLLOCK_VK>>

\* C10: no reader lets an error out; a reader whose OS query fails returns
\* false, and each reader's value depends on its own query alone: it is true
\* iff that query succeeded and that key is toggled on.
C10_ReadersNeverRaise ==
    /\ pc # "crashed"
    /\ (IS_WINDOWS /\ lastOp = "update_status")
          => /\ sample # None
             /\ \A i \in 1..3 : sample[i] = (outcomes[i] = "ok" /\ keys[VKOf[i]])

\* C10 witness: the Caps Lock and Scroll Lock queries failed while all three
\* keys were on; Num Lock alone reads true
C10_Witness ==
    /\ IS_WINDOWS
    /\ lastOp = "update_status"
    /\ outcomes = <<"OSError", "ok", "AttributeError">>
    /\ \A vk \in VKs : keys[vk]
    /\ sample = <<FALSE, TRUE, FALSE>>

\* the OS toggle state of the three keys, in the order caps, num, scroll
KeyState == <<keys[CAPS_LOCK_VK], keys[NUMLOCK_VK], keys[SCROLLLOCK_VK]>>

AllOk == <<"ok", "ok", "ok">>

\* C11 as claimed: every key toggle is shown at a later poll tick; no toggle
\* is left unshown by a poll tick whose three queries succeeded.
C11_EveryToggleShown ==
    (IS_WINDOWS /\ lastOp = "update_status" /\ outcomes = AllOk) => ~unshown

\* C11 as amended: on the supported platform a poll tick whose three queries
\* succeed shows the window iff the key state at the tick differs from the
\* last-displayed state; toggles that have returned the keys to the
\* last-displayed state by the tick are not shown.
C11_ShownIffStateDiffersAtTick ==
    [][(IS_WINDOWS /\ lastOp' = "update_status" /\ outcomes' = AllOk)
        => IF Wrap(KeyState) # Displayed
           THEN /\ visible'
                /\ "show" \in calls'
                /\ Displayed' = Wrap(KeyState)
                /\ ~unshown'
           ELSE /\ calls' = {}
                /\ visible' = visible
                /\ unshown' = unshown]_vars

\* C11 witness: keys were toggled back to the displayed state between two
\* ticks, and the tick after them showed nothing
C11_Witness ==
    /\ IS_WINDOWS
    /\ lastOp = "update_status"
    /\ outcomes = AllOk
    /\ ticks = 2
    /\ unshown
    /\ calls = {}
    /\ Displayed = Wrap(KeyState)

\* C12: with no hide-time supplied the countdown armed on a state change
\* lasts 1500 ms, and with no polling rate supplied the poll interval is
\* 250 ms, whether the window is constructed by main or by CapsLockWindow()
\* with its default arguments.
C12_DefaultDurations ==
    /\ (args[1] = None /\ "hide_timer.start" \in calls) => hide_timer = {1500}
    /\ (args[2] = None /\ lastOp = "update_status") => timer = {250}

\* C13: a hide countdown is pending only while the window is visible, and
\* hide_window leaves the window hidden with no countdown pending.
C13_CountdownOnlyWhileVisible ==
    /\ Active(hide_timer) => visible
    /\ Due(hide_timer) => visible
    /\ lastOp = "hide_window" => (~visible /\ ~Active(hide_timer))

\* C13 witness: hide_window has just run on the supported platform
C13_Witness ==
    /\ IS_WINDOWS
    /\ lastOp = "hide_window"
    /\ ~visible
    /\ ~Active(hide_timer)
    /\ hidesSinceChange = 1

\* C14: when a hide expiry and a state-changing poll tick are due together,
\* the tick ends in the same state in either dispatch order (the tick first,
\* with the expiry still due, or right after hide_window): the window is
\* visible, label, style and stored state show the sample, and the countdown
\* is armed for the full hide-time, so the superseded expiry does not fire.
C14_EitherOrderSameState ==
    [][(SampledTick /\ Wrap(sample') # Displayed
            /\ (Due(hide_timer) \/ lastOp = "hide_window"))
        => /\ visible'
           /\ is_shown'
           /\ Displayed' = Wrap(sample')
           /\ labelText' = ExpectedText(sample')
           /\ labelStyle'.background =
                  (IF TRUE \in {sample'[i] : i \in 1..3} THEN "#27AE60" ELSE "#2C3E50")
           /\ hide_timer' = {hide_time}
           /\ ~Due(hide_timer')]_vars

\* C14 witness: hide-time and polling rate are equal, so a countdown pending
\* at a tick is due at that tick; the tick ran first and re-armed it
C14_Witness ==
    /\ IS_WINDOWS
    /\ hide_time = polling_rate
    /\ lastOp = "update_status"
    /\ superseded
    /\ "hide_timer.start" \in calls
    /\ visible
    /\ hide_timer = {hide_time}

\* C15: in the program started through main, is_shown is true iff the window
\* is visible, in every reachable state.
C15_FlagIsVisibility ==
    via = "main" => (is_shown <=> visible)

\* C16: on the supported platform, in the program started through main, a
\* hide countdown is pending whenever the window is visible.
C16_VisibleHasCountdown ==
    (IS_WINDOWS /\ via = "main" /\ visible) => Active(hide_timer)

\* C17: on the supported platform, in the program started through main,
\* whenever the window is visible the stored state is set and the label text
\* and style are the rendering of the stored state.
C17_VisibleShowsStoredState ==
    (IS_WINDOWS /\ via = "main" /\ visible)
        => /\ \A i \in 1..3 : Displayed[i] # None
           /\ IF \E i \in 1..3 : Displayed[i] = None THEN FALSE
              ELSE LET t == <<Displayed[1][1], Displayed[2][1], Displayed[3][1]>>
                   IN /\ labelText = ExpectedText(t)
                      /\ labelStyle.background =
                             (IF TRUE \in {t[i] : i \in 1..3} THEN "#27AE60" ELSE "#2C3E50")

====
